---- MODULE Spec2Model ----
(***************************************************************************)
(* Model of src/utils.rs of flat-manager-hooks: the Transaction guard      *)
(* (abort on drop unless committed) and the retry helper (exponential      *)
(* backoff).  The OSTree repository is an external collaborator: the       *)
(* result of each of its calls is a nondeterministic choice.               *)
(***************************************************************************)
EXTENDS Integers, Sequences, FiniteSets

\* ---------------------------------------------------------------- bounds
NumGuards == 2
MaxCalls == 2
MaxRefLen == 5
MaxPath == 3

Guards == 1..NumGuards
Errors == {"e1", "e2"}
RepoResults == {"Ok"} \cup Errors

VARIABLES
  guards,      \* guards[g] = [state, finished]: one Transaction value
  ret,         \* ret[g]: what the last Transaction::new / commit on g gave its caller
  calls,       \* calls of new/commit/drop, the repository calls they make and
               \* their accesses to `finished`, in program order
  repoOpen,    \* the repository has an open transaction
  rejecting,   \* the repository refuses prepare_transaction while one is open
  thread       \* "running", "unwinding" (a panic is propagating) or "aborted"

VARIABLES
  rpc,         \* position of the caller of retry: "idle", "loop" or "returned"
  i,           \* retry's local i
  wait_time,   \* retry's local wait_time
  rlog,        \* what the current retry call has done so far, in order
  rret,        \* what the current retry call returned
  ncalls,      \* retry calls started so far
  prev         \* what the retry call before the current one returned

VARIABLES
  refstring,   \* the argument of app_id_from_ref, as a sequence of tokens
  app_id,      \* what app_id_from_ref gave for it
  mtree,       \* mtree[k]: what lookup answers for the k-th segment of path, on
               \* the tree reached through the segments before it
  path,        \* the path argument of mtree_lookup / mtree_lookup_file
  lookup_fn,   \* which of the two was called, "none" before the call
  lookup_ret,  \* what it returned
  looked       \* the names passed to MutableTree::lookup, in order

txnVars == <<guards, ret, calls, repoOpen, rejecting, thread>>

retryVars == <<rpc, i, wait_time, rlog, rret, ncalls, prev>>

utilVars == <<refstring, app_id, mtree, path, lookup_fn, lookup_ret, looked>>

vars == <<guards, ret, calls, repoOpen, rejecting, thread,
          rpc, i, wait_time, rlog, rret, ncalls, prev,
          refstring, app_id, mtree, path, lookup_fn, lookup_ret, looked>>

\* ------------------------------------------------------------ repository
Ev(op, g, res) == [op |-> op, g |-> g, res |-> res]

NoRet == [tag |-> "none", err |-> "-"]
OkRet == [tag |-> "Ok", err |-> "-"]
ErrRet(e) == [tag |-> "Err", err |-> e]
PanicRet == [tag |-> "panic", err |-> "-"]

\* what prepare_transaction may answer
PrepareResults(open, rej) == IF open /\ rej THEN Errors ELSE RepoResults

\* the repository's transaction state after one of its calls
RepoAfter(open, op, res) ==
  IF res # "Ok" THEN open
  ELSE IF op = "prepare_transaction" THEN TRUE
  ELSE FALSE

\* ------------------------------------------------------------ Transaction
\* variant of TransactionNew: the result of prepare_transaction is not checked
TransactionNew_Unchecked(g, res) ==
  [ev      |-> <<Ev("new", g, "-"), Ev("prepare_transaction", g, res)>>,
   guard   |-> [state |-> "live", finished |-> FALSE],
   ret     |-> OkRet]

\* variant of TransactionNew: a failed prepare_transaction is cleaned up with
\* abort_transaction before the error is returned
TransactionNew_AbortOnFail(g, res) ==
  [ev      |-> IF res = "Ok"
               THEN <<Ev("new", g, "-"), Ev("prepare_transaction", g, res)>>
               ELSE <<Ev("new", g, "-"), Ev("prepare_transaction", g, res),
                      Ev("abort_transaction", g, "Ok")>>,
   guard   |-> IF res = "Ok" THEN [state |-> "live", finished |-> FALSE]
                             ELSE [state |-> "absent", finished |-> FALSE],
   ret     |-> IF res = "Ok" THEN OkRet ELSE ErrRet(res)]

\* Transaction::new: `?` on prepare_transaction, then Self { repo, finished: false }
TransactionNew(g, res) ==
  [ev      |-> <<Ev("new", g, "-"), Ev("prepare_transaction", g, res)>>,
   guard   |-> IF res = "Ok" THEN [state |-> "live", finished |-> FALSE]
                             ELSE [state |-> "absent", finished |-> FALSE],
   ret     |-> IF res = "Ok" THEN OkRet ELSE ErrRet(res)]

\* variant of TransactionDrop: the test of finished is inverted
TransactionDrop_Inverted(g, fin, abortRes) ==
  IF fin
  THEN [ev    |-> <<Ev("drop", g, "-"), Ev("read_finished", g, "true"),
                    Ev("abort_transaction", g, abortRes)>>,
        panic |-> (abortRes # "Ok")]
  ELSE [ev    |-> <<Ev("drop", g, "-"), Ev("read_finished", g, "false")>>,
        panic |-> FALSE]

\* variant of TransactionDrop: finished is not consulted, abort always runs
TransactionDrop_Always(g, fin, abortRes) ==
  [ev    |-> <<Ev("drop", g, "-"), Ev("read_finished", g, IF fin THEN "true" ELSE "false"),
               Ev("abort_transaction", g, abortRes)>>,
   panic |-> (abortRes # "Ok")]

\* variant of TransactionDrop: no destructor, the guard is just freed
TransactionDrop_NoAbort(g, fin, abortRes) ==
  [ev    |-> <<Ev("drop", g, "-"), Ev("read_finished", g, IF fin THEN "true" ELSE "false")>>,
   panic |-> FALSE]

\* variant of TransactionDrop: the result of abort_transaction is discarded
TransactionDrop_IgnoreAbortError(g, fin, abortRes) ==
  IF ~fin
  THEN [ev    |-> <<Ev("drop", g, "-"), Ev("read_finished", g, "false"),
                    Ev("abort_transaction", g, abortRes)>>,
        panic |-> FALSE]
  ELSE [ev    |-> <<Ev("drop", g, "-"), Ev("read_finished", g, "true")>>,
        panic |-> FALSE]

\* Drop::drop: abort_transaction unless finished; expect() panics on Err
TransactionDrop(g, fin, abortRes) ==
  IF ~fin
  THEN [ev    |-> <<Ev("drop", g, "-"), Ev("read_finished", g, "false"),
                    Ev("abort_transaction", g, abortRes)>>,
        panic |-> (abortRes # "Ok")]
  ELSE [ev    |-> <<Ev("drop", g, "-"), Ev("read_finished", g, "true")>>,
        panic |-> FALSE]

\* variant of TransactionCommit: finished is never set
TransactionCommit_NoFinish(g, fin, commitRes, abortRes) ==
  LET d == TransactionDrop(g, fin, abortRes)
  IN [ev       |-> <<Ev("commit", g, "-"), Ev("commit_transaction", g, commitRes)>> \o d.ev,
      finished |-> fin,
      panic    |-> d.panic,
      ret      |-> IF d.panic THEN PanicRet
                   ELSE IF commitRes = "Ok" THEN OkRet ELSE ErrRet(commitRes)]

\* variant of TransactionCommit: finished is set before commit_transaction is tried
TransactionCommit_FinishEarly(g, fin, commitRes, abortRes) ==
  LET d == TransactionDrop(g, TRUE, abortRes)
  IN [ev       |-> <<Ev("commit", g, "-"), Ev("set_finished", g, "true"),
                     Ev("commit_transaction", g, commitRes)>> \o d.ev,
      finished |-> TRUE,
      panic    |-> d.panic,
      ret      |-> IF d.panic THEN PanicRet
                   ELSE IF commitRes = "Ok" THEN OkRet ELSE ErrRet(commitRes)]

\* Transaction::commit(mut self): `?` on commit_transaction returns early with
\* finished still false; self is dropped when the call ends either way
TransactionCommit(g, fin, commitRes, abortRes) ==
  LET fin2 == IF commitRes = "Ok" THEN TRUE ELSE fin
      setEv == IF commitRes = "Ok" THEN <<Ev("set_finished", g, "true")>> ELSE << >>
      d == TransactionDrop(g, fin2, abortRes)
  IN [ev       |-> <<Ev("commit", g, "-"), Ev("commit_transaction", g, commitRes)>>
                   \o setEv \o d.ev,
      finished |-> fin2,
      panic    |-> d.panic,
      ret      |-> IF d.panic THEN PanicRet
                   ELSE IF commitRes = "Ok" THEN OkRet ELSE ErrRet(commitRes)]

\* the repository state after a sequence of its calls
RECURSIVE RepoAfterAll(_, _)
RepoAfterAll(open, evs) ==
  IF evs = << >> THEN open
  ELSE RepoAfterAll(
         IF Head(evs).op \in {"prepare_transaction", "commit_transaction", "abort_transaction"}
         THEN RepoAfter(open, Head(evs).op, Head(evs).res) ELSE open,
         Tail(evs))

\* a panic while running starts unwinding, or aborts the process when the
\* build uses panic=abort; a panic while unwinding aborts the process
AfterPanic(t) == IF t = "running" THEN {"unwinding", "aborted"} ELSE {"aborted"}

TxnInit ==
  /\ guards = [g \in Guards |-> [state |-> "absent", finished |-> FALSE]]
  /\ ret = [g \in Guards |-> NoRet]
  /\ calls = << >>
  /\ repoOpen = FALSE
  /\ rejecting \in BOOLEAN
  /\ thread = "running"

\* the caller evaluates Transaction::new(&repo)
New(g) ==
  /\ thread = "running"
  /\ guards[g].state = "absent"
  /\ ret[g] = NoRet
  /\ \A h \in Guards : h < g => ret[h] # NoRet
  /\ \E res \in PrepareResults(repoOpen, rejecting) :
       LET n == TransactionNew(g, res) IN
         /\ guards' = [guards EXCEPT ![g] = n.guard]
         /\ ret' = [ret EXCEPT ![g] = n.ret]
         /\ calls' = calls \o n.ev
         /\ repoOpen' = RepoAfterAll(repoOpen, n.ev)
  /\ UNCHANGED <<rejecting, thread>>
  /\ UNCHANGED <<retryVars, utilVars>>

\* variant of Commit: commit borrows the guard (&mut self) instead of
\* consuming it, so the guard is still there when the call ends
Commit_ByRef(g) ==
  /\ thread = "running"
  /\ guards[g].state = "live"
  /\ \E commitRes \in RepoResults :
       LET ev == <<Ev("commit", g, "-"), Ev("commit_transaction", g, commitRes)>> IN
         /\ guards' = [guards EXCEPT ![g].finished = (commitRes = "Ok" \/ @)]
         /\ ret' = [ret EXCEPT ![g] = IF commitRes = "Ok" THEN OkRet ELSE ErrRet(commitRes)]
         /\ calls' = calls \o ev
         /\ repoOpen' = RepoAfterAll(repoOpen, ev)
  /\ UNCHANGED <<rejecting, thread>>
  /\ UNCHANGED <<retryVars, utilVars>>

\* the caller evaluates guard.commit()
Commit(g) ==
  /\ thread = "running"
  /\ guards[g].state = "live"
  /\ \E commitRes \in RepoResults, abortRes \in RepoResults :
       LET c == TransactionCommit(g, guards[g].finished, commitRes, abortRes) IN
         /\ guards' = [guards EXCEPT ![g] = [state |-> "destroyed", finished |-> c.finished]]
         /\ ret' = [ret EXCEPT ![g] = c.ret]
         /\ calls' = calls \o c.ev
         /\ repoOpen' = RepoAfterAll(repoOpen, c.ev)
         /\ IF c.panic THEN thread' \in AfterPanic(thread) ELSE thread' = thread
  /\ UNCHANGED rejecting
  /\ UNCHANGED <<retryVars, utilVars>>

\* the guard goes out of scope without commit: end of scope or early return
\* while running, or a destructor run while a panic unwinds the stack
Drop(g) ==
  /\ thread \in {"running", "unwinding"}
  /\ guards[g].state = "live"
  /\ \E abortRes \in RepoResults :
       LET d == TransactionDrop(g, guards[g].finished, abortRes) IN
         /\ guards' = [guards EXCEPT ![g].state = "destroyed"]
         /\ calls' = calls \o d.ev
         /\ repoOpen' = RepoAfterAll(repoOpen, d.ev)
         /\ IF d.panic THEN thread' \in AfterPanic(thread) ELSE thread' = thread
  /\ UNCHANGED <<ret, rejecting>>
  /\ UNCHANGED <<retryVars, utilVars>>

\* code of the caller panics while it holds guards
CallerPanic ==
  /\ thread = "running"
  /\ thread' = "unwinding"
  /\ UNCHANGED <<guards, ret, calls, repoOpen, rejecting>>
  /\ UNCHANGED <<retryVars, utilVars>>

TxnNext ==
  \/ \E g \in Guards : New(g)
  \/ \E g \in Guards : Commit(g)
  \/ \E g \in Guards : Drop(g)
  \/ CallerPanic

\* ------------------------------------------------------------------ retry
retry_count == 5
initial_wait_time == 1

Values == {"v1", "v2"}
\* what one invocation of f may give
FResults == [tag : {"Ok"}, val : Values] \cup [tag : {"Err"}, val : Errors]

REv(kind, tag, val, n, budget, wait) ==
  [kind |-> kind, tag |-> tag, val |-> val, i |-> n, budget |-> budget, wait |-> wait]
AttemptEv(r) == REv("attempt", r.tag, r.val, 0, 0, 0)
ErrorLogEv(e) == REv("error_log", "-", e, 0, 0, 0)
NoticeEv(n, budget, wait) == REv("notice", "-", "-", n, budget, wait)
SleepEv(wait) == REv("sleep", "-", "-", 0, 0, wait)

NoResult == [tag |-> "none", val |-> "-"]

\* variant of RetryRound: the budget test is i >= retry_count
RetryRound_OffByOne(n, wait, r) ==
  IF r.tag = "Ok"
  THEN [ev |-> <<AttemptEv(r)>>, i |-> n, wait_time |-> wait,
        done |-> TRUE, ret |-> r]
  ELSE IF n + 1 >= retry_count
  THEN [ev |-> <<AttemptEv(r), ErrorLogEv(r.val)>>, i |-> n + 1, wait_time |-> wait,
        done |-> TRUE, ret |-> r]
  ELSE [ev |-> <<AttemptEv(r), ErrorLogEv(r.val),
                 NoticeEv(n + 1, retry_count, wait), SleepEv(wait)>>,
        i |-> n + 1, wait_time |-> wait * 2,
        done |-> FALSE, ret |-> NoResult]

\* variant of RetryRound: wait_time grows by one instead of doubling
RetryRound_LinearBackoff(n, wait, r) ==
  IF r.tag = "Ok"
  THEN [ev |-> <<AttemptEv(r)>>, i |-> n, wait_time |-> wait,
        done |-> TRUE, ret |-> r]
  ELSE IF n + 1 > retry_count
  THEN [ev |-> <<AttemptEv(r), ErrorLogEv(r.val)>>, i |-> n + 1, wait_time |-> wait,
        done |-> TRUE, ret |-> r]
  ELSE [ev |-> <<AttemptEv(r), ErrorLogEv(r.val),
                 NoticeEv(n + 1, retry_count, wait), SleepEv(wait)>>,
        i |-> n + 1, wait_time |-> wait + 1,
        done |-> FALSE, ret |-> NoResult]

\* variant of RetryRound: wait_time is doubled before the sleep, not after it
RetryRound_DoubleFirst(n, wait, r) ==
  IF r.tag = "Ok"
  THEN [ev |-> <<AttemptEv(r)>>, i |-> n, wait_time |-> wait,
        done |-> TRUE, ret |-> r]
  ELSE IF n + 1 > retry_count
  THEN [ev |-> <<AttemptEv(r), ErrorLogEv(r.val)>>, i |-> n + 1, wait_time |-> wait,
        done |-> TRUE, ret |-> r]
  ELSE [ev |-> <<AttemptEv(r), ErrorLogEv(r.val),
                 NoticeEv(n + 1, retry_count, wait * 2), SleepEv(wait * 2)>>,
        i |-> n + 1, wait_time |-> wait * 2,
        done |-> FALSE, ret |-> NoResult]

\* variant of RetryRound: i is not incremented
RetryRound_NoCount(n, wait, r) ==
  IF r.tag = "Ok"
  THEN [ev |-> <<AttemptEv(r)>>, i |-> n, wait_time |-> wait,
        done |-> TRUE, ret |-> r]
  ELSE IF n > retry_count
  THEN [ev |-> <<AttemptEv(r), ErrorLogEv(r.val)>>, i |-> n, wait_time |-> wait,
        done |-> TRUE, ret |-> r]
  ELSE [ev |-> <<AttemptEv(r), ErrorLogEv(r.val),
                 NoticeEv(n, retry_count, wait), SleepEv(wait)>>,
        i |-> n, wait_time |-> wait * 2,
        done |-> FALSE, ret |-> NoResult]

\* variant of RetryRound: the thread sleeps before the retry notice is logged
RetryRound_SleepThenNotice(n, wait, r) ==
  IF r.tag = "Ok"
  THEN [ev |-> <<AttemptEv(r)>>, i |-> n, wait_time |-> wait,
        done |-> TRUE, ret |-> r]
  ELSE IF n + 1 > retry_count
  THEN [ev |-> <<AttemptEv(r), ErrorLogEv(r.val)>>, i |-> n + 1, wait_time |-> wait,
        done |-> TRUE, ret |-> r]
  ELSE [ev |-> <<AttemptEv(r), ErrorLogEv(r.val),
                 SleepEv(wait), NoticeEv(n + 1, retry_count, wait)>>,
        i |-> n + 1, wait_time |-> wait * 2,
        done |-> FALSE, ret |-> NoResult]

\* one round of retry's loop, given the result r of this round's f()
RetryRound(n, wait, r) ==
  IF r.tag = "Ok"
  THEN [ev |-> <<AttemptEv(r)>>, i |-> n, wait_time |-> wait,
        done |-> TRUE, ret |-> r]
  ELSE IF n + 1 > retry_count
  THEN [ev |-> <<AttemptEv(r), ErrorLogEv(r.val)>>, i |-> n + 1, wait_time |-> wait,
        done |-> TRUE, ret |-> r]
  ELSE [ev |-> <<AttemptEv(r), ErrorLogEv(r.val),
                 NoticeEv(n + 1, retry_count, wait), SleepEv(wait)>>,
        i |-> n + 1, wait_time |-> wait * 2,
        done |-> FALSE, ret |-> NoResult]

RetryInit ==
  /\ rpc = "idle"
  /\ i = 0
  /\ wait_time = initial_wait_time
  /\ rlog = << >>
  /\ rret = NoResult
  /\ ncalls = 0
  /\ prev = NoResult

\* variant of RetryCall: wait_time lives outside the call and is not reset
RetryCall_KeepWait ==
  /\ rpc \in {"idle", "returned"}
  /\ ncalls < MaxCalls
  /\ rpc' = "loop"
  /\ i' = 0
  /\ wait_time' = wait_time
  /\ rlog' = << >>
  /\ rret' = NoResult
  /\ ncalls' = ncalls + 1
  /\ prev' = rret
  /\ UNCHANGED <<txnVars, utilVars>>

\* a caller enters retry(f): the locals are initialised
RetryCall ==
  /\ rpc \in {"idle", "returned"}
  /\ ncalls < MaxCalls
  /\ rpc' = "loop"
  /\ i' = 0
  /\ wait_time' = initial_wait_time
  /\ rlog' = << >>
  /\ rret' = NoResult
  /\ ncalls' = ncalls + 1
  /\ prev' = rret
  /\ UNCHANGED <<txnVars, utilVars>>

\* one round of the loop: f() and the match on its result
RetryAttempt ==
  /\ rpc = "loop"
  /\ \E r \in FResults :
       LET s == RetryRound(i, wait_time, r) IN
         /\ rlog' = rlog \o s.ev
         /\ i' = s.i
         /\ wait_time' = s.wait_time
         /\ rret' = s.ret
         /\ rpc' = IF s.done THEN "returned" ELSE "loop"
  /\ UNCHANGED <<ncalls, prev>>
  /\ UNCHANGED <<txnVars, utilVars>>

RetryNext ==
  \/ RetryCall
  \/ RetryAttempt

\* ------------------------------------------------------- app_id_from_ref
\* A string is a sequence of tokens: the separators "/" and ".", and words,
\* which stand for runs of other characters.
Words == {"App", "Sources", "Debug", "Locale"}
Tokens == {"/", "."} \cup Words
Refs == UNION {[1..n -> Tokens] : n \in 0..MaxRefLen}

\* str::split(sep), collected: the pieces between occurrences of sep
RECURSIVE Split(_, _)
Split(str, sep) ==
  IF \A k \in DOMAIN str : str[k] # sep
  THEN <<str>>
  ELSE LET first == CHOOSE k \in DOMAIN str :
                      str[k] = sep /\ \A j \in 1..(k - 1) : str[j] # sep
       IN <<SubSeq(str, 1, first - 1)>> \o Split(SubSeq(str, first + 1, Len(str)), sep)

\* [&str]::join(sep)
RECURSIVE Join(_, _)
Join(parts, sep) ==
  IF parts = << >> THEN << >>
  ELSE IF Len(parts) = 1 THEN parts[1]
  ELSE parts[1] \o <<sep>> \o Join(Tail(parts), sep)

NoAppId == [tag |-> "none", val |-> << >>]
UnwrapPanic == [tag |-> "panic", val |-> << >>]
Returned(str) == [tag |-> "Ok", val |-> str]

Suffixes == {<<"Sources">>, <<"Debug">>, <<"Locale">>}

\* variant of AppIdFromRef: a second listed component is stripped as well
AppIdFromRef_StripTwice(str) ==
  LET segs == Split(str, "/") IN
    IF Len(segs) < 2 THEN UnwrapPanic
    ELSE LET ref_id == segs[2]
             id_parts == Split(ref_id, ".")
             once == SubSeq(id_parts, 1, Len(id_parts) - 1)
         IN IF id_parts[Len(id_parts)] \in Suffixes
            THEN IF once # << >> /\ once[Len(once)] \in Suffixes
                 THEN Returned(Join(SubSeq(once, 1, Len(once) - 1), "."))
                 ELSE Returned(Join(once, "."))
            ELSE Returned(ref_id)

\* app_id_from_ref: nth(1).unwrap() of the '/'-split, then the '.'-split
\* without its last part when that part is in the list
AppIdFromRef(str) ==
  LET segs == Split(str, "/") IN
    IF Len(segs) < 2 THEN UnwrapPanic
    ELSE LET ref_id == segs[2]
             id_parts == Split(ref_id, ".")
         IN IF id_parts[Len(id_parts)] \in Suffixes
            THEN Returned(Join(SubSeq(id_parts, 1, Len(id_parts) - 1), "."))
            ELSE Returned(ref_id)

\* ---------------------------------------------------------- mtree_lookup
Names == {"a", "b", "c"}
Paths == UNION {[1..n -> Names] : n \in 0..MaxPath}
\* what MutableTree::lookup may answer: an error, or an optional file value
\* and an optional subtree
Answers == [tag : {"Err"}, file : {"None"}, sub : {"None"}]
             \cup [tag : {"Ok"}, file : {"None", "Some"}, sub : {"None", "Some"}]

NoLookup == [tag |-> "none", file |-> "None", sub |-> "None", err |-> "-"]
LookupOk(ans) == [tag |-> "Ok", file |-> ans.file, sub |-> ans.sub, err |-> "-"]
LookupErr(msg) == [tag |-> "Err", file |-> "None", sub |-> "None", err |-> msg]
FileOk == [tag |-> "Ok", file |-> "Some", sub |-> "None", err |-> "-"]

\* variant of MtreeLookup: a missing subtree is reported as a missing file
RECURSIVE MtreeLookup_WrongMessage(_, _, _)
MtreeLookup_WrongMessage(tree, p, k) ==
  IF Len(p) - k + 1 = 1
  THEN [ret    |-> IF tree[k].tag = "Err" THEN LookupErr("lookup failed") ELSE LookupOk(tree[k]),
        looked |-> <<p[k]>>]
  ELSE IF Len(p) - k + 1 >= 2
  THEN IF tree[k].tag = "Err"
       THEN [ret |-> LookupErr("lookup failed"), looked |-> <<p[k]>>]
       ELSE IF tree[k].sub = "None"
       THEN [ret |-> LookupErr("file not found"), looked |-> <<p[k]>>]
       ELSE LET r == MtreeLookup_WrongMessage(tree, p, k + 1)
            IN [ret |-> r.ret, looked |-> <<p[k]>> \o r.looked]
  ELSE [ret |-> LookupErr("no path given"), looked |-> << >>]

\* mtree_lookup on the segments k.. of p: [file], [subdir, rest @ ..] or []
RECURSIVE MtreeLookup(_, _, _)
MtreeLookup(tree, p, k) ==
  IF Len(p) - k + 1 = 1
  THEN [ret    |-> IF tree[k].tag = "Err" THEN LookupErr("lookup failed") ELSE LookupOk(tree[k]),
        looked |-> <<p[k]>>]
  ELSE IF Len(p) - k + 1 >= 2
  THEN IF tree[k].tag = "Err"
       THEN [ret |-> LookupErr("lookup failed"), looked |-> <<p[k]>>]
       ELSE IF tree[k].sub = "None"
       THEN [ret |-> LookupErr("subdirectory not found"), looked |-> <<p[k]>>]
       ELSE LET r == MtreeLookup(tree, p, k + 1)
            IN [ret |-> r.ret, looked |-> <<p[k]>> \o r.looked]
  ELSE [ret |-> LookupErr("no path given"), looked |-> << >>]

\* mtree_lookup_file: `?` on mtree_lookup, then .0.ok_or_else("file not found")
MtreeLookupFile(tree, p) ==
  LET r == MtreeLookup(tree, p, 1) IN
    IF r.ret.tag = "Err" THEN r
    ELSE IF r.ret.file = "None"
    THEN [ret |-> LookupErr("file not found"), looked |-> r.looked]
    ELSE [ret |-> FileOk, looked |-> r.looked]

UtilIdle ==
  /\ refstring = << >>
  /\ app_id = NoAppId
  /\ mtree = << >>
  /\ path = << >>
  /\ lookup_fn = "none"
  /\ lookup_ret = NoLookup
  /\ looked = << >>

LookupInit ==
  /\ TxnInit
  /\ RetryInit
  /\ refstring = << >>
  /\ app_id = NoAppId
  /\ mtree \in [1..MaxPath -> Answers]
  /\ path \in Paths
  /\ lookup_fn = "none"
  /\ lookup_ret = NoLookup
  /\ looked = << >>

\* a caller evaluates mtree_lookup(&mtree, &path)
MtreeLookupCall ==
  /\ lookup_fn = "none"
  /\ LET r == MtreeLookup(mtree, path, 1) IN
       /\ lookup_ret' = r.ret
       /\ looked' = r.looked
  /\ lookup_fn' = "mtree_lookup"
  /\ UNCHANGED <<refstring, app_id, mtree, path>>
  /\ UNCHANGED <<txnVars, retryVars>>

\* a caller evaluates mtree_lookup_file(&mtree, &path)
MtreeLookupFileCall ==
  /\ lookup_fn = "none"
  /\ LET r == MtreeLookupFile(mtree, path) IN
       /\ lookup_ret' = r.ret
       /\ looked' = r.looked
  /\ lookup_fn' = "mtree_lookup_file"
  /\ UNCHANGED <<refstring, app_id, mtree, path>>
  /\ UNCHANGED <<txnVars, retryVars>>

LookupNext ==
  \/ MtreeLookupCall
  \/ MtreeLookupFileCall

LookupSpec == LookupInit /\ [][LookupNext]_vars

RefInit ==
  /\ TxnInit
  /\ RetryInit
  /\ refstring \in Refs
  /\ app_id = NoAppId
  /\ mtree = << >>
  /\ path = << >>
  /\ lookup_fn = "none"
  /\ lookup_ret = NoLookup
  /\ looked = << >>

\* a caller evaluates app_id_from_ref(refstring)
AppIdFromRefCall ==
  /\ app_id = NoAppId
  /\ app_id' = AppIdFromRef(refstring)
  /\ UNCHANGED <<refstring, mtree, path, lookup_fn, lookup_ret, looked>>
  /\ UNCHANGED <<txnVars, retryVars>>

RefNext == AppIdFromRefCall

Init == TxnInit /\ RetryInit /\ UtilIdle

RefSpec == RefInit /\ [][RefNext]_vars

TxnSpec == Init /\ [][TxnNext]_vars

RetrySpec == Init /\ [][RetryNext]_vars

\* every invocation of f terminates, so a round that has started completes
RetryFairSpec == Init /\ [][RetryNext]_vars /\ WF_vars(RetryAttempt)

\* ------------------------------------------------- reading the call log
Idx(g, op) == {k \in DOMAIN calls : calls[k].g = g /\ calls[k].op = op}
Count(g, op) == Cardinality(Idx(g, op))
CommitSucceeded(g) ==
  \E k \in Idx(g, "commit_transaction") : calls[k].res = "Ok"
CommitFailed(g) ==
  \E k \in Idx(g, "commit_transaction") : calls[k].res # "Ok"
AbortFailed(g) ==
  \E k \in Idx(g, "abort_transaction") : calls[k].res # "Ok"
Destroyed(g) == guards[g].state = "destroyed"

\* C1: a guard that was constructed and then dropped without commit() having
\* been called on it has had abort_transaction invoked exactly once and
\* commit_transaction never.
C1_AbortOnDrop ==
  \A g \in Guards :
    (Destroyed(g) /\ Count(g, "commit") = 0)
      => /\ Count(g, "abort_transaction") = 1
         /\ Count(g, "commit_transaction") = 0

C1_Witness ==
  \E g \in Guards :
    /\ Destroyed(g) /\ Count(g, "commit") = 0
    /\ Count(g, "abort_transaction") = 1
    /\ thread = "unwinding"

\* C2: once commit_transaction has succeeded for a guard, abort_transaction is
\* never invoked for it, neither within commit() nor by the drop that follows.
C2_CommitFinal ==
  \A g \in Guards :
    CommitSucceeded(g) => Count(g, "abort_transaction") = 0

C2_Witness ==
  \E g \in Guards :
    /\ CommitSucceeded(g) /\ Destroyed(g)
    /\ Count(g, "drop") = 1
    /\ Count(g, "abort_transaction") = 0

\* the teardown of a guard whose commit_transaction failed: finished is still
\* false, and one abort_transaction follows the failed commit_transaction
FailedCommitTeardown(g) ==
  /\ Destroyed(g)
  /\ ~guards[g].finished
  /\ Count(g, "commit_transaction") = 1
  /\ Count(g, "abort_transaction") = 1
  /\ \A c \in Idx(g, "commit_transaction"), a \in Idx(g, "abort_transaction") : c < a
  /\ \A r \in Idx(g, "read_finished") : calls[r].res = "false"

\* C3 as stated: after a failed commit_transaction the guard is torn down with
\* finished = false and one abort attempt, and commit() returns the commit error.
C3_Original ==
  \A g \in Guards :
    CommitFailed(g)
      => /\ FailedCommitTeardown(g)
         /\ \A c \in Idx(g, "commit_transaction") : ret[g] = ErrRet(calls[c].res)

\* C3 (amended): after a failed commit_transaction the guard is torn down with
\* finished = false and exactly one abort attempt, made after the failed
\* commit_transaction; commit() returns the commit error when that abort
\* succeeds, and panics instead of returning when that abort fails.
C3_FailedCommitAborts ==
  \A g \in Guards :
    CommitFailed(g)
      => /\ FailedCommitTeardown(g)
         /\ \A c \in Idx(g, "commit_transaction") :
              ret[g] = IF AbortFailed(g) THEN PanicRet ELSE ErrRet(calls[c].res)

C3_Witness ==
  \E g \in Guards :
    /\ CommitFailed(g) /\ ~AbortFailed(g)
    /\ Count(g, "abort_transaction") = 1
    /\ ret[g] = ErrRet("e2")

\* C4: a destroyed guard has had exactly one of: a successful
\* commit_transaction, one abort_transaction call; never both, never neither.
C4_TerminatedOnce ==
  \A g \in Guards :
    Destroyed(g)
      => \/ CommitSucceeded(g) /\ Count(g, "abort_transaction") = 0
         \/ ~CommitSucceeded(g) /\ Count(g, "abort_transaction") = 1

C4_Witness ==
  \E g, h \in Guards :
    /\ Destroyed(g) /\ CommitSucceeded(g)
    /\ Destroyed(h) /\ CommitFailed(h) /\ Count(h, "abort_transaction") = 1

\* C5: when prepare_transaction fails, new returns that error, no guard
\* exists, and commit_transaction and abort_transaction are never invoked for
\* that call.
C5_FailedNew ==
  \A g \in Guards :
    \A p \in Idx(g, "prepare_transaction") :
      calls[p].res # "Ok"
        => /\ ret[g] = ErrRet(calls[p].res)
           /\ guards[g].state = "absent"
           /\ Count(g, "commit_transaction") = 0
           /\ Count(g, "abort_transaction") = 0
           /\ Count(g, "drop") = 0

C5_Witness ==
  \E g, h \in Guards :
    /\ g < h
    /\ \E p \in Idx(g, "prepare_transaction") : calls[p].res = "e1"
    /\ ret[g] = ErrRet("e1")
    /\ ret[h] # NoRet

\* C6: a failed abort_transaction is fatal: the thread is no longer running,
\* no new() or commit() is called after it, the abort is not repeated, and the
\* failure is not handed to the caller as an Err.
C6_AbortFailureFatal ==
  \A g \in Guards :
    \A a \in Idx(g, "abort_transaction") :
      calls[a].res # "Ok"
        => /\ thread # "running"
           /\ \A k \in DOMAIN calls : k > a => calls[k].op \notin {"new", "commit"}
           /\ Count(g, "abort_transaction") = 1
           /\ ret[g].tag # "Err"

C6_Witness ==
  \E g \in Guards :
    /\ AbortFailed(g)
    /\ Count(g, "commit") = 1
    /\ ret[g] = PanicRet

\* C7: finished is true exactly when commit_transaction has succeeded for the
\* guard; a live guard has finished = false and its flag has not been read; a
\* destroyed guard has had it read once, by drop.
C7_FinishedFlag ==
  \A g \in Guards :
    /\ guards[g].finished <=> CommitSucceeded(g)
    /\ guards[g].state = "live"
         => ~guards[g].finished /\ Count(g, "read_finished") = 0
    /\ guards[g].state = "absent" => Count(g, "read_finished") = 0
    /\ Destroyed(g)
         => /\ Count(g, "read_finished") = 1
            /\ \A r \in Idx(g, "read_finished") :
                 /\ \E d \in Idx(g, "drop") : r = d + 1
                 /\ calls[r].res = (IF CommitSucceeded(g) THEN "true" ELSE "false")

C7_Witness ==
  \E g, h \in Guards :
    /\ Destroyed(g) /\ guards[g].finished /\ Count(g, "read_finished") = 1
    /\ guards[h].state = "live" /\ Count(h, "prepare_transaction") = 1
\* -------------------------------------------------- reading retry's log
IsAttempt(e) == e.kind = "attempt"
IsSleep(e) == e.kind = "sleep"
Attempts == SelectSeq(rlog, IsAttempt)
Sleeps == SelectSeq(rlog, IsSleep)
SleepDurations == [k \in 1..Len(Sleeps) |-> Sleeps[k].wait]

\* the position in rlog of the k-th invocation of f
AttemptPos(k) ==
  CHOOSE p \in DOMAIN rlog :
    /\ rlog[p].kind = "attempt"
    /\ Cardinality({q \in 1..p : rlog[q].kind = "attempt"}) = k
SleepPos == {p \in DOMAIN rlog : rlog[p].kind = "sleep"}

RECURSIVE Pow2(_)
Pow2(n) == IF n = 0 THEN 1 ELSE 2 * Pow2(n - 1)

AllFailed == \A k \in 1..Len(Attempts) : Attempts[k].tag = "Err"

\* C8: a retry call that has returned and whose f failed every time invoked f
\* 6 times and slept 5 times, for 1, 2, 4, 8, 16 seconds in that order, once
\* between each two consecutive attempts, never before the first attempt and
\* never after the sixth.
C8_Exhaustion ==
  (rpc = "returned" /\ AllFailed)
    => /\ Len(Attempts) = 6
       /\ SleepDurations = <<1, 2, 4, 8, 16>>
       /\ \A k \in 2..6 :
            Cardinality({p \in SleepPos : AttemptPos(k - 1) < p /\ p < AttemptPos(k)}) = 1
       /\ \A p \in SleepPos : AttemptPos(1) < p /\ p < AttemptPos(6)

C8_Witness ==
  /\ rpc = "returned" /\ AllFailed
  /\ Len(Attempts) = 6
  /\ Len(Sleeps) = 5

\* C9: when f fails on its first k invocations (0 <= k <= 5) and succeeds on
\* invocation k+1, retry has returned that success value, f was invoked k+1
\* times, nothing follows the successful invocation, and the sleeps are the k
\* durations 1, 2, ..., 2^(k-1) (none for k = 0).
C9_SuccessAfterK ==
  \A k \in 0..retry_count :
    ( /\ Len(Attempts) >= k + 1
      /\ \A j \in 1..k : Attempts[j].tag = "Err"
      /\ Attempts[k + 1].tag = "Ok" )
    => /\ rpc = "returned"
       /\ rret = [tag |-> "Ok", val |-> Attempts[k + 1].val]
       /\ Len(Attempts) = k + 1
       /\ rlog[Len(rlog)].kind = "attempt"
       /\ SleepDurations = [j \in 1..k |-> Pow2(j - 1)]

C9_Witness ==
  /\ rpc = "returned"
  /\ Len(Attempts) = 3
  /\ Attempts[1].tag = "Err" /\ Attempts[2].tag = "Err"
  /\ Attempts[3] = AttemptEv([tag |-> "Ok", val |-> "v2"])
  /\ rret = [tag |-> "Ok", val |-> "v2"]
  /\ SleepDurations = <<1, 2>>

\* the k = 0 case of C9: success on the first invocation, no sleep
C9_WitnessNoSleep ==
  /\ rpc = "returned"
  /\ Len(Attempts) = 1 /\ Attempts[1].tag = "Ok"
  /\ Sleeps = << >>

\* C10: retry returns Err only when f has been invoked 6 times and failed 6
\* times, and the error it returns is the one of the sixth invocation.
C10_ErrOnlyWhenExhausted ==
  rret.tag = "Err"
    => /\ rpc = "returned"
       /\ Len(Attempts) = 6
       /\ AllFailed
       /\ rret.val = Attempts[6].val

C10_Witness ==
  /\ rpc = "returned" /\ rret.tag = "Err"
  /\ Len(Attempts) = 6
  /\ Attempts[1].val # Attempts[6].val
  /\ Attempts[5].val # Attempts[6].val
  /\ rret.val = Attempts[6].val
\* C11: a retry call returns: whatever f answers, it never invokes f more than
\* 6 times nor sleeps more than 5 times, it has a result exactly when it has
\* returned, that result is a success value or an error and never both, and
\* every call that is in its loop eventually returns.
C11_Returns ==
  /\ [](/\ Len(Attempts) <= retry_count + 1
        /\ Len(Sleeps) <= retry_count
        /\ rpc = "returned" <=> rret.tag \in {"Ok", "Err"}
        /\ rret.tag = "Ok" => rret.val \in Values
        /\ rret.tag = "Err" => rret.val \in Errors)
  /\ ((rpc = "loop") ~> (rpc = "returned"))

C11_Witness ==
  /\ rpc = "returned"
  /\ Len(Attempts) = 4
  /\ Len(Sleeps) = 3
  /\ rret.tag = "Ok"

FailedCount == Cardinality({k \in 1..Len(Attempts) : Attempts[k].tag = "Err"})

\* C12: in every retry call, whatever the call before it returned, the
\* counter and the wait are functions of this call's own rounds: i is the
\* number of failed invocations of this call, wait_time is 2^(sleeps of this
\* call), and the sleeps are 1, 2, 4, ...; a call that has not invoked f yet
\* has i = 0 and wait_time = 1.
C12_FreshPerCall ==
  ncalls >= 1
    => /\ i = FailedCount
       /\ wait_time = Pow2(Len(Sleeps))
       /\ SleepDurations = [j \in 1..Len(Sleeps) |-> Pow2(j - 1)]
       /\ rlog = << >> => (i = 0 /\ wait_time = initial_wait_time)

C12_Witness ==
  /\ ncalls = 2
  /\ prev.tag = "Err"
  /\ rpc = "returned"
  /\ rret.tag = "Ok"
  /\ Len(Attempts) = 2
  /\ SleepDurations = <<1>>
  /\ i = 1 /\ wait_time = 2
\* the number of "/" in the argument
Slashes == Cardinality({k \in DOMAIN refstring : refstring[k] = "/"})
\* the text between the first "/" and the second "/" (or the end)
SecondSegment ==
  LET a == CHOOSE k \in DOMAIN refstring :
             refstring[k] = "/" /\ \A j \in 1..(k - 1) : refstring[j] # "/"
      rest == SubSeq(refstring, a + 1, Len(refstring))
      ends == {k \in DOMAIN rest : rest[k] = "/"}
  IN IF ends = {} THEN rest
     ELSE SubSeq(rest, 1, (CHOOSE k \in ends : \A j \in ends : k <= j) - 1)
\* the segment ends in a whole component that is Sources, Debug or Locale
EndsInSuffix(seg) ==
  /\ seg # << >>
  /\ <<seg[Len(seg)]>> \in Suffixes
  /\ Len(seg) >= 2 => seg[Len(seg) - 1] = "."

\* C13: for a ref with at least two '/'-separated segments, app_id_from_ref
\* returns the second segment without its last '.'-separated component (and
\* the '.' before it) when that component is exactly Sources, Debug or
\* Locale, and the second segment unchanged otherwise; one component at most
\* is removed.
C13_AppId ==
  (app_id # NoAppId /\ Slashes >= 1)
    => LET seg == SecondSegment IN
         app_id = Returned(IF EndsInSuffix(seg)
                           THEN SubSeq(seg, 1, Len(seg) - 2)
                           ELSE seg)

C13_Witness ==
  /\ refstring = <<"/", "Sources", ".", "Debug", "/">>
  /\ app_id = Returned(<<"Sources">>)
\* the segments before the k-th all answered with a subtree
ResolvesBefore(k) ==
  \A j \in 1..(k - 1) : mtree[j].tag = "Ok" /\ mtree[j].sub = "Some"

\* C14: after mtree_lookup or mtree_lookup_file: an empty path gives "no path
\* given"; a path with a non-final segment for which lookup answers no
\* subtree, the segments before it resolving to subtrees, gives "subdirectory
\* not found" and no later segment is looked up; mtree_lookup_file on a path
\* whose non-final segments resolve to subtrees and whose final segment has
\* no file value gives "file not found".
C14_LookupErrors ==
  lookup_fn # "none"
    => /\ path = << >>
            => lookup_ret = LookupErr("no path given") /\ looked = << >>
       /\ \A k \in 1..(Len(path) - 1) :
            (ResolvesBefore(k) /\ mtree[k].tag = "Ok" /\ mtree[k].sub = "None")
              => /\ lookup_ret = LookupErr("subdirectory not found")
                 /\ looked = SubSeq(path, 1, k)
       /\ ( /\ lookup_fn = "mtree_lookup_file"
            /\ path # << >>
            /\ ResolvesBefore(Len(path))
            /\ mtree[Len(path)].tag = "Ok"
            /\ mtree[Len(path)].file = "None" )
            => /\ lookup_ret = LookupErr("file not found")
               /\ looked = path

C14_Witness ==
  /\ lookup_fn = "mtree_lookup_file"
  /\ path = <<"a", "b", "c">>
  /\ mtree[1].sub = "Some"
  /\ mtree[2].tag = "Ok" /\ mtree[2].sub = "None"
  /\ lookup_ret = LookupErr("subdirectory not found")
  /\ looked = <<"a", "b">>

\* the other two failures of C14: a missing file under resolving
\* subdirectories, and the empty path
C14_WitnessFile ==
  /\ lookup_fn = "mtree_lookup_file"
  /\ path = <<"a", "b", "c">>
  /\ lookup_ret = LookupErr("file not found")
  /\ looked = <<"a", "b", "c">>

C14_WitnessEmpty ==
  /\ lookup_fn = "mtree_lookup"
  /\ path = << >>
  /\ lookup_ret = LookupErr("no path given")
RepoOps == {"prepare_transaction", "commit_transaction", "abort_transaction"}

\* C15: commit is single-shot: commit() and commit_transaction happen at most
\* once per guard; once commit() has been called the guard is destroyed, and
\* what follows the call for that guard is only the rest of that one call (no
\* second commit, no new); after a failed commit_transaction the repository
\* calls for the guard are exactly one abort_transaction.
C15_SingleShot ==
  \A g \in Guards :
    /\ Count(g, "commit") <= 1
    /\ Count(g, "commit_transaction") <= 1
    /\ \A c \in Idx(g, "commit") :
         /\ Destroyed(g)
         /\ \A k \in DOMAIN calls :
              (k > c /\ calls[k].g = g) => calls[k].op \notin {"new", "commit"}
    /\ \A c \in Idx(g, "commit_transaction") :
         calls[c].res # "Ok"
           => LET later == {k \in DOMAIN calls :
                              k > c /\ calls[k].g = g /\ calls[k].op \in RepoOps}
              IN /\ Cardinality(later) = 1
                 /\ \A k \in later : calls[k].op = "abort_transaction"

C15_Witness ==
  \E g, h \in Guards :
    /\ CommitFailed(g) /\ Destroyed(g)
    /\ Count(g, "commit_transaction") = 1
    /\ Count(g, "abort_transaction") = 1
    /\ thread = "running"
    /\ g < h /\ guards[h].state = "live"
\* C16: the order of events within a retry call.  The log starts with an
\* invocation of f.  A failed invocation k is followed at once by the log of
\* its error; for k = 1..5 then come the retry notice (k, 5, 2^(k-1)), a sleep
\* of 2^(k-1) and, if anything, the next invocation; for k = 6 the error log
\* is the last event and the call has returned.  A successful invocation is
\* the last event and the call has returned.
C16_EventOrder ==
  /\ rlog # << >> => rlog[1].kind = "attempt"
  /\ Len(Attempts) <= retry_count + 1
  /\ \A k \in 1..Len(Attempts) :
       LET p == AttemptPos(k) IN
         IF Attempts[k].tag = "Ok"
         THEN p = Len(rlog) /\ rpc = "returned"
         ELSE /\ Len(rlog) >= p + 1
              /\ rlog[p + 1] = ErrorLogEv(Attempts[k].val)
              /\ IF k <= retry_count
                 THEN /\ Len(rlog) >= p + 3
                      /\ rlog[p + 2] = NoticeEv(k, 5, Pow2(k - 1))
                      /\ rlog[p + 3] = SleepEv(Pow2(k - 1))
                      /\ IF Len(rlog) = p + 3
                         THEN rpc = "loop"
                         ELSE rlog[p + 4].kind = "attempt"
                 ELSE Len(rlog) = p + 1 /\ rpc = "returned"

C16_Witness ==
  /\ rpc = "returned"
  /\ Len(rlog) = 22
  /\ rlog[19] = NoticeEv(5, 5, 16)
  /\ rlog[20] = SleepEv(16)
  /\ rlog[21].kind = "attempt"
  /\ rlog[22].kind = "error_log"
\* the spec's Attempting(n, wait): the call is in its loop, about to make
\* invocation n = i + 1 with wait = wait_time
AttemptNo == i + 1

\* C17: retry refines the state machine with budget 5 and initial wait 1.  In
\* every Attempting(n, wait) state 1 <= n <= 6 and wait = 2^(n-1).  From
\* Attempting(n, wait) a successful invocation leads to the terminal Success;
\* a failed one leads to Attempting(n+1, 2*wait) when n <= 5 and to the
\* terminal Failed when n = 6.  A call starts in Attempting(1, 1), and a
\* terminal state is left only by a new call.
C17_StateMachine ==
  /\ [](rpc = "loop" => (/\ 1 <= AttemptNo /\ AttemptNo <= 6
                         /\ wait_time = Pow2(AttemptNo - 1)))
  /\ [][ IF rpc = "loop"
         THEN /\ Len(rlog') > Len(rlog)
              /\ rlog'[Len(rlog) + 1].kind = "attempt"
              /\ IF rlog'[Len(rlog) + 1].tag = "Ok"
                 THEN rpc' = "returned" /\ rret'.tag = "Ok"
                 ELSE IF AttemptNo <= 5
                 THEN /\ rpc' = "loop"
                      /\ i' + 1 = AttemptNo + 1
                      /\ wait_time' = 2 * wait_time
                 ELSE /\ AttemptNo = 6
                      /\ rpc' = "returned" /\ rret'.tag = "Err"
         ELSE /\ rpc' = "loop"
              /\ i' + 1 = 1
              /\ wait_time' = 1
              /\ ncalls' = ncalls + 1 ]_vars

C17_Witness ==
  /\ rpc = "loop"
  /\ AttemptNo = 6
  /\ wait_time = 32
LiveGuards == {g \in Guards : guards[g].state = "live"}
AnyAbortFailed == \E g \in Guards : AbortFailed(g)

\* at most one live guard, and the transaction is open exactly when a live
\* guard with finished = false exists
OneGuardOwnsTransaction ==
  /\ Cardinality(LiveGuards) <= 1
  /\ repoOpen <=> (\E g \in LiveGuards : ~guards[g].finished)

\* guard g was alive when the call at position p of the log was made
AliveAt(g, p) ==
  /\ \E q \in Idx(g, "prepare_transaction") : q < p /\ calls[q].res = "Ok"
  /\ \A d \in Idx(g, "drop") : d > p

\* a Transaction::new made while another guard was alive failed, created no
\* guard and issued no abort_transaction
SecondNewFails ==
  \A h \in Guards : \A p \in Idx(h, "prepare_transaction") :
    (\E g \in Guards \ {h} : AliveAt(g, p))
      => /\ calls[p].res # "Ok"
         /\ ret[h].tag = "Err"
         /\ guards[h].state = "absent"
         /\ Count(h, "abort_transaction") = 0

\* C18: with a repository that rejects prepare_transaction while a
\* transaction is open, between guard operations (new, commit, drop; none
\* follows an abort that failed, which is fatal) at most one guard is live and
\* the transaction is open exactly when a live guard with finished = false
\* exists; a new attempted while a guard is alive fails, creates no guard and
\* issues no abort_transaction, so the first guard's transaction stays open.
C18_OneGuardPerRepo ==
  rejecting
    => /\ SecondNewFails
       /\ ~AnyAbortFailed => OneGuardOwnsTransaction

C18_Witness ==
  \E g, h \in Guards :
    /\ rejecting
    /\ guards[g].state = "live" /\ ~guards[g].finished
    /\ AliveAt(g, Len(calls))
    /\ Idx(h, "prepare_transaction") = {Len(calls)}
    /\ ret[h].tag = "Err"
    /\ repoOpen
====
